---- MODULE Spec2Model ----
(***************************************************************************)
(* Job lifecycle of the Genjutsu 3D generation service.                    *)
(*                                                                         *)
(* Three processes share the Celery broker queue and the result backend:   *)
(*   - the FastAPI service (api/main.py): generate, get_status, cancel_job *)
(*   - the Celery worker  (worker/worker.py): generate_3d, run by a solo   *)
(*     pool, one task at a time, in the worker's main thread               *)
(*   - the result backend's retention timer (shared/config.py)             *)
(*                                                                         *)
(* Numbers: guidance_scale is kept in tenths (10 = 1.0, 300 = 30.0) and    *)
(* progress in percent (10 = 0.1, 100 = 1.0).  An optional field of a      *)
(* response (Optional[...] = None) is a set: {} for None, {v} for v.       *)
(***************************************************************************)
EXTENDS Integers, Sequences, FiniteSets, TLC

\* ---------------------------------------------------------------- bounds
MaxJobs == 2        \* accepted submissions
MaxCancels == 2     \* calls of DELETE /cancel
MaxNow == 2         \* ticks of the wall clock
MaxFiles == 2       \* files in the output directory of a Flask service

\* ------------------------------------------------------------- job ids
UnknownId == 0      \* an id that POST /generate never returns
JobIds == 1..MaxJobs
AllIds == {UnknownId} \cup JobIds

\* ------------------------------------------------- GenerateRequest bounds
GuidanceMin == 10
GuidanceMax == 300
StepsMin == 16
StepsMax == 256

Request(p, m, g, s) ==
    [prompt |-> p, model |-> m, guidance_scale |-> g, num_inference_steps |-> s]

DefaultGuidance == 150
DefaultSteps == 64

\* The request bodies a client sends: the lower bounds, the upper bounds with
\* an empty prompt, the defaults with an unregistered model name, and one
\* value past each of the four bounds.
Requests ==
    { Request("car", "shap_e", GuidanceMin, StepsMin),
      Request("", "shap_e", GuidanceMax, StepsMax),
      Request("car", "nope", DefaultGuidance, DefaultSteps),
      Request("car", "shap_e", GuidanceMin - 1, DefaultSteps),
      Request("car", "shap_e", GuidanceMax + 1, DefaultSteps),
      Request("car", "shap_e", DefaultGuidance, StepsMin - 1),
      Request("car", "shap_e", DefaultGuidance, StepsMax + 1) }

NoRequest == Request("", "", 0, 0)

\* pydantic validation of GenerateRequest: prompt is a required str with no
\* length constraint, model is a free str, the two numbers carry ge/le.
GenerateRequestValidNoLowerBound(r) ==
    /\ r.guidance_scale <= GuidanceMax
    /\ r.num_inference_steps >= StepsMin
    /\ r.num_inference_steps <= StepsMax

GenerateRequestValid(r) ==
    /\ r.guidance_scale >= GuidanceMin
    /\ r.guidance_scale <= GuidanceMax
    /\ r.num_inference_steps >= StepsMin
    /\ r.num_inference_steps <= StepsMax

\* ------------------------------------------------------ result backend
None == [none |-> TRUE]
PendingMeta == [status |-> "PENDING", result |-> None]

READY_STATES == {"SUCCESS", "FAILURE", "REVOKED"}

Exc(type, exc_args) == [exc_type |-> type, exc_args |-> exc_args]
IsDict(x) == ("none" \notin DOMAIN x) /\ ("exc_type" \notin DOMAIN x)
Truthy(x) == "none" \notin DOMAIN x
DictGet(d, k, default) == IF k \in DOMAIN d THEN d[k] ELSE default

\* str(exception): the single argument, or '' when raised without one.
Str(e) == IF Len(e.exc_args) = 0 THEN "" ELSE e.exc_args[1]

\* ------------------------------------------------------- point data
\* A float is kept in thousandths (1000 = 1.0, 950 = 0.95, 5 = 0.005),
\* rounded down.  The points a model produces: per point the position, the
\* normal, the colour channels as floats, the opacity, the scaling and the
\* rotation.  A Shap-E mesh carries the first three (verts, vertex_normals and
\* the R, G, B vertex channels), a GaussianDreamer result all but the normal.
MaxPoints == 3           \* points of a generated cloud
PlaceholderPoints == 2   \* records the placeholder writes (num_points)

\* The two points of the model, by name.
PointNames == {"a", "b"}

Point(name) ==
    IF name = "a"
    THEN [xyz |-> << 0, 0, 0 >>, normal |-> << 0, 0, 0 >>,
          rgb |-> << 0, 500, 1000 >>, opacity |-> 800,
          scaling |-> << 50, 50, 50 >>, rotation |-> << 1000, 0, 0, 0 >>]
    ELSE [xyz |-> << 1000, 0, 0 >>, normal |-> << 0, 0, 1000 >>,
          rgb |-> << 1200, 999, 2 >>, opacity |-> 950,
          scaling |-> << 5, 200, 40 >>, rotation |-> << 0, 1000, 0, 0 >>]

\* A cloud is the sequence of the names of its points.
PointsOf(c) == [i \in 1..Len(c) |-> Point(c[i])]

Clouds == UNION { [1..n -> PointNames] : n \in 0..MaxPoints }

\* The cloud of a run that does not draw one.
PlainCloud == << "a", "b" >>

\* ---------------------------------------------------------- byte strings
Flatten(seqs) ==
    LET upto[i \in 0..Len(seqs)] ==
            IF i = 0 THEN << >> ELSE upto[i - 1] \o seqs[i]
    IN  upto[Len(seqs)]

\* One float32, little-endian: four bytes, the low byte first.
PackF(v) ==
    << v % 256, (v \div 256) % 256, (v \div 65536) % 256,
       (v \div 16777216) % 256 >>

\* One unsigned char.
PackB(c) == << c % 256 >>

\* struct.pack(fmt, *vals) for a format of 'f' and 'B' characters
Pack(fmt, vals) ==
    Flatten([i \in 1..Len(fmt) |->
                IF fmt[i] = "f" THEN PackF(vals[i]) ELSE PackB(vals[i])])

\* a.astype(np.float32).tobytes() of a one-dimensional array
Float32Bytes(vals) == Flatten([i \in 1..Len(vals) |-> PackF(vals[i])])

\* a.astype(np.uint8).tobytes(), and bytes(a) of a uint8 array
Uint8Bytes(vals) == Flatten([i \in 1..Len(vals) |-> PackB(vals[i])])

Clip(x, lo, hi) == IF x < lo THEN lo ELSE IF x > hi THEN hi ELSE x

\* ------------------------------------------------------------ the header
\* len(str(num_points))
Digits(n) == IF n < 10 THEN 1 ELSE IF n < 100 THEN 2 ELSE IF n < 1000 THEN 3 ELSE 4

\* The header lines, each with its length in ASCII bytes without the newline.
Line(text, len) == [text |-> text, len |-> len]

Header(num_points) ==
    << Line("ply", 3),
       Line("format binary_little_endian 1.0", 31),
       [text |-> "element vertex", count |-> num_points,
        len |-> 15 + Digits(num_points)],
       Line("property float x", 16), Line("property float y", 16),
       Line("property float z", 16), Line("property float nx", 17),
       Line("property float ny", 17), Line("property float nz", 17),
       Line("property uchar red", 18), Line("property uchar green", 20),
       Line("property uchar blue", 19), Line("property float opacity", 22),
       Line("property float scale_0", 22), Line("property float scale_1", 22),
       Line("property float scale_2", 22), Line("property float rot_0", 20),
       Line("property float rot_1", 20), Line("property float rot_2", 20),
       Line("property float rot_3", 20), Line("end_header", 10) >>

SumLen(seq, extra) ==
    LET upto[i \in 0..Len(seq)] ==
            IF i = 0 THEN 0 ELSE upto[i - 1] + seq[i].len + extra
    IN  upto[Len(seq)]

\* len(header.encode('ascii')): every line and its newline
HeaderLen(header) == SumLen(header, 1)

\* The bytes written for one attribute of a point.
Field(name, bytes) == [field |-> name, len |-> Len(bytes), bytes |-> bytes]

\* A file: the header and then the records, each the sequence of its fields.
PlyFile(writer, header, records) ==
    [writer |-> writer, header |-> header, records |-> records]

\* output_path.stat().st_size
FileSize(f) ==
    HeaderLen(f.header)
      + SumLen([i \in 1..Len(f.records) |-> [len |-> SumLen(f.records[i], 0)]], 0)

\* expected_size = len(header) + num_points * 59
RecordSize == 59

\* ------------------------------------------------- models/shap_e.py
\* lines 154-155: np.clip(colors, 0.0, 1.0), then (colors * 255).astype(uint8)
ColorsUint8(rgb) == [c \in 1..3 |-> (Clip(rgb[c], 0, 1000) * 255) \div 1000]

\* Euclidean distance of two vertices, rounded down
Dist(p, q) ==
    LET s == (p[1] - q[1]) * (p[1] - q[1]) + (p[2] - q[2]) * (p[2] - q[2])
               + (p[3] - q[3]) * (p[3] - q[3])
    IN  CHOOSE r \in 0..2000 : r * r <= s /\ (r + 1) * (r + 1) > s

\* lines 162-165: the mean distance from vertex i to its k - 1 nearest
\* neighbours, k = min(8, num_points); below 8 vertices these are all the
\* other vertices.
AvgDistance(mesh, i) ==
    SumLen([j \in 1..Len(mesh) |-> [len |-> Dist(mesh[i].xyz, mesh[j].xyz)]], 0)
        \div (Len(mesh) - 1)

\* lines 167-171
Scales(mesh, i) ==
    LET a == AvgDistance(mesh, i)
    IN  << Clip((a * 5) \div 10, 5, 200), Clip((a * 5) \div 10, 5, 200),
           Clip((a * 4) \div 10, 5, 200) >>

\* lines 216-233: the six struct.pack writes of vertex i
ShapERecord(mesh, i) ==
    << Field("position", Pack(<< "f", "f", "f" >>, mesh[i].xyz)),
       Field("normal", Pack(<< "f", "f", "f" >>, << 0, 0, 0 >>)),
       Field("color", Pack(<< "B", "B", "B" >>, ColorsUint8(mesh[i].rgb))),
       Field("opacity", Pack(<< "f" >>, << 950 >>)),
       Field("scale", Pack(<< "f", "f", "f" >>, Scales(mesh, i))),
       Field("rotation", Pack(<< "f", "f", "f", "f" >>, << 1000, 0, 0, 0 >>)) >>

\* What a call leaves behind: the exception it raised, if any, and the file
\* it wrote, if any.
Outcome(raised, written) == [raised |-> raised, written |-> written]

\* _export_to_ply.  No vertex: the ValueError of line 132.  One vertex:
\* k = 1, for which tree.query returns one-dimensional arrays, and
\* distances[:, 1:] of line 165 raises IndexError.  Otherwise the file is
\* written and then its size compared with the expected one.
ExportToPly(mesh) ==
    LET n == Len(mesh)
        f == PlyFile("shap_e", Header(n), [i \in 1..n |-> ShapERecord(mesh, i)])
    IN  IF n = 0 THEN Outcome({Exc("ValueError", << "Mesh has no vertices!" >>)}, {})
        ELSE IF n = 1
        THEN Outcome({Exc("IndexError", << "too many indices for array" >>)}, {})
        ELSE IF FileSize(f) # HeaderLen(Header(n)) + n * RecordSize
        THEN Outcome({Exc("ValueError", << "PLY file size mismatch!" >>)}, {f})
        ELSE Outcome({}, {f})

\* ShapEModel.generate: not loaded, RuntimeError; vertices.max(axis=0) of
\* line 102 raises ValueError for a mesh with no vertex; then the export.
ShapEGenerate(loaded, mesh) ==
    IF ~loaded THEN Outcome({Exc("RuntimeError", << "Shap-E not loaded" >>)}, {})
    ELSE IF Len(mesh) = 0
    THEN Outcome({Exc("ValueError", << "zero-size array to reduction operation" >>)}, {})
    ELSE ExportToPly(mesh)

\* -------------------------------------------- models/gaussiandreamer.py
GaussiansRecordFloatColor(g, i) ==
    << Field("position", Float32Bytes(g[i].xyz)),
       Field("normal", Float32Bytes(<< 0, 0, 0 >>)),
       Field("color", Float32Bytes([c \in 1..3 |-> (g[i].rgb[c] * 255) \div 1000])),
       Field("opacity", Float32Bytes(<< g[i].opacity >>)),
       Field("scale", Float32Bytes(g[i].scaling)),
       Field("rotation", Float32Bytes(g[i].rotation)) >>

\* lines 119-125: the six writes of point i
GaussiansRecord(g, i) ==
    << Field("position", Float32Bytes(g[i].xyz)),
       Field("normal", Float32Bytes(<< 0, 0, 0 >>)),
       Field("color", Uint8Bytes([c \in 1..3 |->
                          Clip((g[i].rgb[c] * 255) \div 1000, 0, 255)])),
       Field("opacity", Float32Bytes(<< g[i].opacity >>)),
       Field("scale", Float32Bytes(g[i].scaling)),
       Field("rotation", Float32Bytes(g[i].rotation)) >>

\* _export_gaussians
ExportGaussians(g) ==
    PlyFile("gaussiandreamer", Header(Len(g)),
            [i \in 1..Len(g) |-> GaussiansRecord(g, i)])

\* ------------------------------------------ gaussiandreamer_service.py
\* word in prompt.lower(), for the prompts of the model
Mentions(prompt, word) == << prompt, word >> \in { << "red car", "red" >> }

\* lines 96-108: the colour the prompt selects, the random variation added
\* to each channel, clipped to a byte
PlaceholderColors(prompt, variation) ==
    LET colors == IF Mentions(prompt, "red") THEN << 255, 100, 100 >>
                  ELSE IF Mentions(prompt, "blue") THEN << 100, 100, 255 >>
                  ELSE IF Mentions(prompt, "yellow") THEN << 255, 255, 100 >>
                  ELSE << 150, 150, 180 >>
    IN  [c \in 1..3 |-> Clip(colors[c] + variation, 0, 255)]

\* lines 143-164: the writes of one point; position and normal take three
\* writes of one float each
PlaceholderRecord(prompt, rnd) ==
    << Field("position", Float32Bytes(<< rnd.xyz[1] >>)
                          \o Float32Bytes(<< rnd.xyz[2] >>)
                          \o Float32Bytes(<< rnd.xyz[3] >>)),
       Field("normal", PackF(0) \o PackF(0) \o PackF(0)),
       Field("color", Uint8Bytes(PlaceholderColors(prompt, rnd.variation))),
       Field("opacity", Float32Bytes(<< 800 >>)),
       Field("scale", Float32Bytes(<< 50, 50, 50 >>)),
       Field("rotation", Float32Bytes(<< 1000, 0, 0, 0 >>)) >>

\* What np.random gives one call: a point of the sphere and a variation of
\* the colour, here the same for every point of the file.
Randoms ==
    { [xyz |-> << 500, 0, 0 >>, variation |-> 0 - 30],
      [xyz |-> << 0, 0, 1000 >>, variation |-> 29] }

\* _generate_placeholder_ply
PlaceholderPly(prompt, rnd) ==
    PlyFile("placeholder", Header(PlaceholderPoints),
            [i \in 1..PlaceholderPoints |-> PlaceholderRecord(prompt, rnd)])

\* ----------------------------------------------------------- the reader
\* The bytes after the header.
Data(f) ==
    Flatten([i \in 1..Len(f.records) |->
                Flatten([k \in 1..Len(f.records[i]) |-> f.records[i][k].bytes])])

UnpackF(b) == b[1] + 256 * b[2] + 65536 * b[3] + 16777216 * b[4]

\* k float32 values at byte offset off of a record
Floats(rec, off, k) ==
    [c \in 1..k |-> UnpackF(SubSeq(rec, off + 4 * (c - 1) + 1, off + 4 * c))]

\* Read: the declared count is checked against the remaining bytes, then
\* every per-point array is materialised from the fixed record layout.
Read(f) ==
    LET data == Data(f)
        count == f.header[3].count
        rec(i) == SubSeq(data, (i - 1) * RecordSize + 1, i * RecordSize)
    IN  IF count * RecordSize # Len(data)
        THEN [error |-> "FormatError"]
        ELSE [count |-> count,
              position |-> [i \in 1..count |-> Floats(rec(i), 0, 3)],
              normal |-> [i \in 1..count |-> Floats(rec(i), 12, 3)],
              color |-> [i \in 1..count |-> SubSeq(rec(i), 25, 27)],
              opacity |-> [i \in 1..count |-> Floats(rec(i), 24 + 3, 1)[1]],
              scale |-> [i \in 1..count |-> Floats(rec(i), 31, 3)],
              rotation |-> [i \in 1..count |-> Floats(rec(i), 43, 4)]]

\* What generate leaves behind, for each cloud the model can produce.  The
\* @@ makes the table an explicit function, which TLC computes once.
Generated ==
    [loaded \in BOOLEAN, c \in Clouds |-> ShapEGenerate(loaded, PointsOf(c))]
        @@ << >>

VARIABLES
    MODELS,        \* worker.MODELS: names of the models that loaded
    wpc,           \* worker position: "loading", "idle" or a line of generate_3d
    wjob,          \* self.request.id of the running task (UnknownId when idle)
    queue,         \* broker queue of task messages (job ids)
    args,          \* args of each task message
    nextId,        \* next task id send_task hands out
    backend,       \* result backend: task id -> stored meta
    revoked,       \* the worker's in-memory set of revoked ids
    mailbox,       \* ids of the revoke broadcasts the worker has yet to handle
    cancels,       \* number of DELETE /cancel calls so far
    rd,            \* the get_status request in flight
    resp,          \* the HTTP response the step just taken sent, if it sent one
    hist,          \* per job: the states the backend has held, in order
    genOutcome,    \* per job: "none", "ok" or "raised" (model.generate)
    cancelledPending,  \* jobs cancelled while queued and not started
    cancelledStarted,  \* jobs cancelled while STARTED
    lastProg,      \* job and progress of the latest read that carried a progress
    is_loaded,     \* Model3DBase.is_loaded of each model object
    models,        \* MultiModelService.models: names of the models that loaded
    spc,           \* Flask service: "off", or where the service that runs is
    invoked,       \* models whose generate the Flask service has called
    files,         \* the output directory: path -> file written there
    cloud,         \* the points the model of this run produces
    now,           \* the wall clock, in ticks since the run began
    timestamp      \* worker: the local timestamp of the task (line 74)

vars == << MODELS, wpc, wjob, queue, args, nextId, backend, revoked, mailbox,
           cancels, rd, resp, hist, genOutcome, cancelledPending, cancelledStarted,
           lastProg, is_loaded, models, spc, invoked, files, cloud, now,
           timestamp >>

\* The state of the Flask services and of the output directory.
extVars == << is_loaded, models, spc, invoked, files, cloud, now >>

\* The state of the API, the broker, the backend and the worker.
jobVars == << MODELS, wpc, wjob, queue, args, nextId, backend, revoked, mailbox,
              cancels, rd, hist, genOutcome, cancelledPending, cancelledStarted,
              lastProg, timestamp >>

Capabilities == {"shap_e", "gaussiandreamer", "dreamgaussian"}

\* model.is_loaded of the model object of that name
Loaded(name) == name \in Capabilities /\ is_loaded[name]

apiVars == << rd, lastProg >>
cancelVars == << cancels, cancelledPending, cancelledStarted >>
workerVars == << MODELS, wpc, wjob, timestamp >>
histVars == << hist, genOutcome, cancelledPending, cancelledStarted >>

Status(j) == backend[j].status

\* The ids a client can name: those POST /generate has returned to it, and
\* an id of its own making.
Issued == 1..(nextId - 1)
ClientIds == {UnknownId} \cup Issued

\* The handlers are async functions that call Celery synchronously, and
\* uvicorn.run serves them from one event loop: a request is handled only
\* when no other is in flight.
ApiFree == rd.pc = "idle"

RdIdle == [pc |-> "idle", job_id |-> UnknownId, status |-> "", progress |-> {}]
NoResponse == [op |-> "none"]
NoProgress == [job_id |-> UnknownId, progress |-> {}]

\* The state after construction of one deployment: the API with its worker
\* (worker at w, no Flask service), or one of the two Flask services (at s),
\* with c the points its model produces.
Deployed(w, s, c) ==
    /\ MODELS = {}
    /\ wpc = w
    /\ wjob = UnknownId
    /\ queue = << >>
    /\ args = [j \in JobIds |-> NoRequest]
    /\ nextId = 1
    /\ backend = [j \in AllIds |-> PendingMeta]
    /\ revoked = {}
    /\ mailbox = {}
    /\ cancels = 0
    /\ rd = RdIdle
    /\ resp = NoResponse
    /\ hist = [j \in AllIds |-> << "PENDING" >>]
    /\ genOutcome = [j \in JobIds |-> "none"]
    /\ cancelledPending = {}
    /\ cancelledStarted = {}
    /\ lastProg = NoProgress
    /\ is_loaded = [n \in Capabilities |-> FALSE]
    /\ models = {}
    /\ spc = s
    /\ invoked = {}
    /\ files = << >>
    /\ now = 0
    /\ timestamp = << >>
    /\ cloud = c

Init == Deployed("loading", "off", PlainCloud)


\* Write of one task's meta to the backend; hist records each change of state.
Store(j, m) ==
    /\ backend' = [backend EXCEPT ![j] = m]
    /\ hist' = [hist EXCEPT ![j] =
                  IF m.status = backend[j].status THEN @ ELSE Append(@, m.status)]

\* ------------------------------------------------------------ f-strings
SubmittedMessage(m) ==
    CASE m = "shap_e" -> "Job submitted for model 'shap_e'"
      [] OTHER -> "Job submitted for model 'nope'"

StartingMessage(m) ==
    CASE m = "shap_e" -> "Starting shap_e generation..."
      [] OTHER -> "Starting nope generation..."

NotAvailableMessage(m) ==
    CASE m = "shap_e" -> "Model 'shap_e' not available"
      [] OTHER -> "Model 'nope' not available"

FlatHelp == "Generated mesh is flat/invalid. Try: ..."

\* =========================================================== api/main.py

\* POST /generate.  A body that fails validation is answered 422 by the
\* framework before the handler runs; otherwise the handler sends the task.
generate(r) ==
    /\ ApiFree
    /\ UNCHANGED << workerVars, backend, revoked, mailbox, cancels, apiVars,
                    histVars, extVars >>
    /\ IF ~GenerateRequestValid(r)
       THEN /\ resp' = [op |-> "generate", code |-> 422, request |-> r,
                        job_id |-> {}, status |-> {}, message |-> {}]
            /\ UNCHANGED << queue, args, nextId >>
       ELSE /\ nextId <= MaxJobs
            /\ queue' = Append(queue, nextId)
            /\ args' = [args EXCEPT ![nextId] = r]
            /\ nextId' = nextId + 1
            /\ resp' = [op |-> "generate", code |-> 200, request |-> r,
                        job_id |-> {nextId}, status |-> {"submitted"},
                        message |-> {SubmittedMessage(r.model)}]

\* DELETE /cancel/{job_id}: control.revoke(job_id, terminate=True) broadcasts
\* to the workers that are connected; a worker that is still loading its
\* models is not, and the broadcast is not kept for it.
CancelDelivery(j) ==
    IF wpc = "loading" THEN mailbox ELSE mailbox \cup {j}

CancelBackendMarksRevoked(j) ==
    [backend EXCEPT ![j] =
       [status |-> "REVOKED", result |-> Exc("TaskRevokedError", << "revoked" >>)]]

\* cancel_job writes nothing to the result backend.
CancelBackend(j) == backend

cancel_job(j) ==
    /\ ApiFree
    /\ j \in ClientIds
    /\ cancels < MaxCancels
    /\ cancels' = cancels + 1
    /\ mailbox' = CancelDelivery(j)
    /\ backend' = CancelBackend(j)
    /\ resp' = [op |-> "cancel", code |-> 200, job_id |-> j,
                status |-> {"cancelled"}]
    /\ cancelledPending' =
          IF \E i \in 1..Len(queue) : queue[i] = j
          THEN cancelledPending \cup {j} ELSE cancelledPending
    /\ cancelledStarted' =
          IF Status(j) = "STARTED"
          THEN cancelledStarted \cup {j} ELSE cancelledStarted
    /\ UNCHANGED << workerVars, queue, args, nextId, revoked, apiVars, hist,
                    genOutcome, extVars >>

\* ------------------------------------------------------------ get_status
StatusResponse(j, s, prog, msg, res, err) ==
    [op |-> "status", code |-> 200, job_id |-> j, status |-> s,
     progress |-> prog, message |-> msg, result |-> res, error |-> err]

ErrorResponse(j) == [op |-> "status", code |-> 500, job_id |-> j]

\* The elif chain of lines 134-155 once the AsyncResult has cached a ready
\* meta m; s is the status set at line 131.
ReadyResponse(j, s, m) ==
    CASE m.status = "SUCCESS" ->
           StatusResponse(j, s, {100}, {"Generation complete"}, {m.result}, {})
      [] m.status = "FAILURE" ->
           StatusResponse(j, s, {}, {"Job failed"}, {}, {Str(m.result)})
      [] OTHER ->
           StatusResponse(j, s, {}, {}, {}, {})

\* Lines 139-143 with the info at hand.
InfoResponse(j, s, info) ==
    IF Truthy(info) /\ IsDict(info)
    THEN StatusResponse(j, s, {DictGet(info, "progress", 0)},
                        {DictGet(info, "message", "Processing...")}, {}, {})
    ELSE StatusResponse(j, s, {}, {"Job started"}, {}, {})

Respond(r) ==
    /\ resp' = r
    /\ rd' = RdIdle
    /\ lastProg' = IF r.code = 200 /\ r.progress # {}
                   THEN [job_id |-> r.job_id, progress |-> r.progress]
                   ELSE lastProg

Continue(pc, j, s, prog) ==
    /\ rd' = [pc |-> pc, job_id |-> j, status |-> s, progress |-> prog]
    /\ resp' = NoResponse
    /\ UNCHANGED lastProg

readerFrame ==
    UNCHANGED << workerVars, queue, args, nextId, backend, revoked, mailbox,
                 cancels, histVars, extVars >>

\* lines 127-132: AsyncResult(job_id); status=result.state (first fetch).
\* A ready meta is cached by the AsyncResult, so the rest of the handler
\* reads the cache and the response is decided here.
get_status(j) ==
    /\ ApiFree
    /\ j \in ClientIds
    /\ readerFrame
    /\ LET m == backend[j] IN
       IF m.status \in READY_STATES
       THEN Respond(ReadyResponse(j, m.status, m))
       ELSE Continue("l134", j, m.status, {})

\* line 134: if result.state == 'PENDING' (second fetch)
get_status_l134 ==
    /\ rd.pc = "l134"
    /\ readerFrame
    /\ LET m == backend[rd.job_id] IN
       IF m.status \in READY_STATES
       THEN Respond(ReadyResponse(rd.job_id, rd.status, m))
       ELSE IF m.status = "PENDING"
       THEN Respond(StatusResponse(rd.job_id, rd.status, {},
                                   {"Job is queued"}, {}, {}))
       ELSE Continue("l137", rd.job_id, rd.status, {})

\* line 137: elif result.state == 'STARTED' (third fetch).  A meta that is
\* neither ready nor STARTED here matches no later branch either.
get_status_l137 ==
    /\ rd.pc = "l137"
    /\ readerFrame
    /\ LET m == backend[rd.job_id] IN
       IF m.status \in READY_STATES
       THEN Respond(ReadyResponse(rd.job_id, rd.status, m))
       ELSE IF m.status = "STARTED"
       THEN Continue("l139a", rd.job_id, rd.status, {})
       ELSE Respond(StatusResponse(rd.job_id, rd.status, {}, {}, {}, {}))

\* line 139, left operand: if result.info (fetch)
get_status_l139a ==
    /\ rd.pc = "l139a"
    /\ readerFrame
    /\ LET m == backend[rd.job_id] IN
       IF m.status \in READY_STATES
       THEN Respond(InfoResponse(rd.job_id, rd.status, m.result))
       ELSE IF Truthy(m.result)
       THEN Continue("l139b", rd.job_id, rd.status, {})
       ELSE Respond(StatusResponse(rd.job_id, rd.status, {},
                                   {"Job started"}, {}, {}))

\* line 139, right operand: isinstance(result.info, dict) (fetch)
get_status_l139b ==
    /\ rd.pc = "l139b"
    /\ readerFrame
    /\ LET m == backend[rd.job_id] IN
       IF m.status \in READY_STATES
       THEN Respond(InfoResponse(rd.job_id, rd.status, m.result))
       ELSE IF IsDict(m.result)
       THEN Continue("l140", rd.job_id, rd.status, {})
       ELSE Respond(StatusResponse(rd.job_id, rd.status, {},
                                   {"Job started"}, {}, {}))

\* line 140: response.progress = result.info.get('progress', 0.0) (fetch).
\* An exception has no .get: AttributeError, answered 500 by lines 159-160.
get_status_l140 ==
    /\ rd.pc = "l140"
    /\ readerFrame
    /\ LET m == backend[rd.job_id] IN
       IF ~IsDict(m.result)
       THEN Respond(ErrorResponse(rd.job_id))
       ELSE IF m.status \in READY_STATES
       THEN Respond(StatusResponse(rd.job_id, rd.status,
                       {DictGet(m.result, "progress", 0)},
                       {DictGet(m.result, "message", "Processing...")}, {}, {}))
       ELSE Continue("l141", rd.job_id, rd.status,
                     {DictGet(m.result, "progress", 0)})

\* line 141: response.message = result.info.get('message', ...) (fetch)
get_status_l141 ==
    /\ rd.pc = "l141"
    /\ readerFrame
    /\ LET m == backend[rd.job_id] IN
       IF ~IsDict(m.result)
       THEN Respond(ErrorResponse(rd.job_id))
       ELSE Respond(StatusResponse(rd.job_id, rd.status, rd.progress,
                       {DictGet(m.result, "message", "Processing...")}, {}, {}))


\* ------------------------------------------------------ output names
\* A str is a sequence of characters: those of the prompts and of the model
\* names of this module.
LongPrompt == "xxxxxxxxxxxxxxxxxxxxxxxxxxxxxxxxxxxxxxxxxxxxxxxxxxxx"

Chars ==
    ( "" :> << >>
      @@ "car" :> << "c", "a", "r" >>
      @@ "red car" :> << "r", "e", "d", " ", "c", "a", "r" >>
      @@ "a b" :> << "a", " ", "b" >>
      @@ " a_b " :> << " ", "a", "_", "b", " " >>
      @@ "../a/b." :> << ".", ".", "/", "a", "/", "b", "." >>
      @@ LongPrompt :> [i \in 1..52 |-> "x"]
      @@ "shap_e" :> << "s", "h", "a", "p", "_", "e" >>
      @@ "nope" :> << "n", "o", "p", "e" >>
      @@ "gaussiandreamer" :>
            << "g", "a", "u", "s", "s", "i", "a", "n",
               "d", "r", "e", "a", "m", "e", "r" >>
      @@ "dreamgaussian" :>
            << "d", "r", "e", "a", "m",
               "g", "a", "u", "s", "s", "i", "a", "n" >>
      @@ "nonexistent" :>
            << "n", "o", "n", "e", "x", "i", "s", "t", "e", "n", "t" >> )

\* str.isalnum() of one character, for the characters above
Alnum ==
    { "a", "b", "c", "d", "e", "g", "h", "i", "m", "n", "o", "p", "r", "s",
      "t", "u", "x", "y",
      "0", "1", "2", "3", "4", "5", "6", "7", "8", "9" }

MaxSafePrompt == 50

\* lines 75-76: the characters of the prompt that are alphanumeric, a space
\* or an underscore, stripped of the spaces at both ends, cut to the first
\* 50, with each space left replaced by an underscore.
SafePromptUnfiltered(cs) ==
    [i \in 1..(IF Len(cs) < MaxSafePrompt THEN Len(cs) ELSE MaxSafePrompt) |->
        IF cs[i] = " " THEN "_" ELSE cs[i]]

SafePrompt(cs) ==
    LET kept == SelectSeq(cs, LAMBDA c : c \in Alnum \/ c \in {" ", "_"})
        first == CHOOSE k \in 1..(Len(kept) + 1) :
                    /\ k = Len(kept) + 1 \/ kept[k] # " "
                    /\ \A i \in 1..(k - 1) : kept[i] = " "
        last == CHOOSE k \in 0..Len(kept) :
                    /\ k = 0 \/ kept[k] # " "
                    /\ \A i \in (k + 1)..Len(kept) : kept[i] = " "
        stripped == SubSeq(kept, first, last)
        cut == SubSeq(stripped, 1, IF Len(stripped) < MaxSafePrompt
                                   THEN Len(stripped) ELSE MaxSafePrompt)
    IN  [i \in 1..Len(cut) |-> IF cut[i] = " " THEN "_" ELSE cut[i]]

\* line 74: datetime.now().strftime("%Y%m%d_%H%M%S") at a clock reading in
\* ticks, for a run that begins at midnight of 1 January 2025.
TicksPerSecond == 2

Strftime(ticks) ==
    LET sec == ticks \div TicksPerSecond
        digit == << "0", "1", "2", "3", "4", "5", "6", "7", "8", "9" >>
        two(n) == << digit[(n \div 10) + 1], digit[(n % 10) + 1] >>
    IN  << "2", "0", "2", "5", "0", "1", "0", "1", "_" >>
            \o two((sec \div 3600) % 24) \o two((sec \div 60) % 60)
            \o two(sec % 60)

\* line 78: f"{model_name}_{safe_prompt}_{timestamp}.ply"
OutputName(model_name, safe_prompt, stamp) ==
    Chars[model_name] \o << "_" >> \o safe_prompt \o << "_" >> \o stamp
        \o << ".", "p", "l", "y" >>

\* line 79: OUTPUT_DIR / output_name.  pathlib splits the name at each "/",
\* drops the empty parts and the "." parts, and a name that begins with "/"
\* replaces the directory.
PathJoin(dir, name) ==
    LET seps == { i \in 1..Len(name) : name[i] = "/" }
        n == Cardinality(seps)
        at(k) == IF k = 0 THEN 0
                 ELSE IF k = n + 1 THEN Len(name) + 1
                 ELSE CHOOSE i \in seps :
                         Cardinality({ j \in seps : j < i }) = k - 1
        pieces == [k \in 1..(n + 1) |-> SubSeq(name, at(k - 1) + 1, at(k) - 1)]
        parts == SelectSeq(pieces, LAMBDA x : x # << >> /\ x # << "." >>)
    IN  IF 1 \in seps THEN << << "/" >> >> \o parts ELSE << dir >> \o parts

\* ======================================================= worker/worker.py

taskFrame ==
    /\ resp' = NoResponse
    /\ UNCHANGED << args, nextId, apiVars, cancelVars, models, spc, invoked,
                    cloud, now >>

processFrame == taskFrame /\ UNCHANGED timestamp

workerFrame ==
    /\ processFrame
    /\ UNCHANGED << is_loaded, files >>

\* Module import, lines 25-39: ShapEModel.load() succeeds or not, and only a
\* model that loaded is put in MODELS; then worker_main connects the worker.
LoadedModels(ok) == IF ok THEN {"shap_e"} ELSE {}

\* load() of a model object: is_loaded is set when, and only when, it
\* returns True.
Load(name, ok) == [is_loaded EXCEPT ![name] = ok]

WorkerStartup ==
    /\ wpc = "loading"
    /\ \E ok \in BOOLEAN :
          /\ is_loaded' = Load("shap_e", ok)
          /\ MODELS' = LoadedModels(ok)
    /\ wpc' = "idle"
    /\ UNCHANGED << wjob, queue, backend, revoked, mailbox, hist, genOutcome,
                    files >>
    /\ processFrame

\* The solo pool runs a task in the worker's main thread, so a revoke
\* broadcast is handled only between tasks: the id joins the revoked set, and
\* terminate=True finds no running task to signal.
ControlReady == wpc = "idle"

HandleRevoke ==
    /\ ControlReady
    /\ \E j \in mailbox :
          /\ revoked' = revoked \cup {j}
          /\ mailbox' = mailbox \ {j}
    /\ UNCHANGED << workerVars, queue, backend, hist, genOutcome >>
    /\ workerFrame

\* What the worker stores when it takes a task message off the queue: a
\* revoked id is marked REVOKED and dropped; otherwise, task_track_started
\* being set, STARTED with the worker's pid and hostname.
TrackStartedMeta ==
    [status |-> "STARTED", result |-> [pid |-> "pid", hostname |-> "host"]]

RevokedMeta ==
    [status |-> "REVOKED", result |-> Exc("TaskRevokedError", << "revoked" >>)]

IsRevoked(j) == j \in revoked

\* --concurrency=1 --pool=solo: the pool has one slot, free between tasks.
PoolFreeWhileRunning == wpc # "loading"

PoolFree == wpc = "idle"

\* The broker queue is a list: send_task pushes at one end and the worker
\* pops at the other, so the oldest message is the next one delivered.
NextMessageNewest(q) == q[Len(q)]

NextMessage(q) == Head(q)

TakeTask ==
    /\ PoolFree
    /\ queue # << >>
    /\ queue' = Tail(queue)
    /\ LET j == NextMessage(queue) IN
       IF IsRevoked(j)
       THEN /\ Store(j, RevokedMeta)
            /\ UNCHANGED << workerVars >>
       ELSE /\ Store(j, TrackStartedMeta)
            /\ wpc' = "l59"
            /\ wjob' = j
            /\ UNCHANGED MODELS
    /\ UNCHANGED << revoked, mailbox, genOutcome >>
    /\ workerFrame

\* self.update_state(state='STARTED', meta={'progress': .., 'message': ..})
ProgressMeta(progress, message) ==
    [status |-> "STARTED", result |-> [progress |-> progress, message |-> message]]

\* An exception leaving generate_3d (re-raised by line 135-137): the task
\* ends and the exception is stored as its FAILURE result.
Fail(e) ==
    /\ Store(wjob, [status |-> "FAILURE", result |-> e])
    /\ wpc' = "idle"
    /\ wjob' = UnknownId
    /\ UNCHANGED MODELS

InitialMetaCustomState(model_name) ==
    [status |-> "PROGRESS",
     result |-> [progress |-> 0, message |-> StartingMessage(model_name)]]

\* lines 59-65
InitialMeta(model_name) == ProgressMeta(0, StartingMessage(model_name))

UpdateStarted ==
    /\ wpc = "l59"
    /\ Store(wjob, InitialMeta(args[wjob].model))
    /\ wpc' = "l68"
    /\ UNCHANGED << MODELS, wjob, queue, revoked, mailbox, genOutcome >>
    /\ workerFrame

\* lines 67-102: the registry lookup, then progress_callback(0.1, ...)
ModelAvailableAlways(model_name) == TRUE

ModelAvailable(model_name) == model_name \in MODELS

CheckModel ==
    /\ wpc = "l68"
    /\ IF ~ModelAvailable(args[wjob].model)
       THEN Fail(Exc("ValueError", << NotAvailableMessage(args[wjob].model) >>))
            /\ UNCHANGED timestamp
       ELSE /\ Store(wjob, ProgressMeta(10, "Initializing model..."))
            /\ timestamp' = Strftime(now)
            /\ wpc' = "l106"
            /\ UNCHANGED << MODELS, wjob >>
    /\ UNCHANGED << queue, revoked, mailbox, genOutcome, is_loaded, files >>
    /\ taskFrame

\* lines 104-122: model.generate returns the path or raises.  The exceptions:
\* the ValueError of ShapEModel._export_to_ply, a ValueError that speaks of a
\* flat mesh, and an exception of the libraries raised with no message.
GenExceptions ==
    { Exc("ValueError", << "Mesh has no vertices!" >>),
      Exc("ValueError", << "mesh is flat" >>),
      Exc("AssertionError", << >>) }

MentionsFlat(msg) == msg \in {"mesh is flat"}

\* the except ValueError clause of lines 112-122
Reraised(e) ==
    IF e.exc_type = "ValueError" /\ MentionsFlat(Str(e))
    THEN Exc("ValueError", << FlatHelp >>)
    ELSE e

\* lines 73-79: output_path for each model name, prompt and timestamp, as an
\* explicit table computed once
OutputPaths ==
    [model_name \in DOMAIN Chars, prompt \in DOMAIN Chars,
     stamp \in {<< >>} \cup { Strftime(ticks) : ticks \in 0..MaxNow } |->
        PathJoin(<< "OUTPUT_DIR" >>,
                 OutputName(model_name, SafePrompt(Chars[prompt]), stamp))]
        @@ << >>

\* output_path of the task, with its local timestamp
OutputPath(r) == OutputPaths[r.model, r.prompt, timestamp]

\* The output directory after a call that wrote at path, or wrote nothing.
\* Every request of a run gets the same points from its model, so the file
\* at a path is determined by who wrote it and, for the placeholder, by the
\* random draw: the directory keeps these, and FileAt gives the file.
Entry(writer, rnd) == [writer |-> writer, rnd |-> rnd]

Written(fs, path, out, entry) ==
    IF out.written = {} THEN fs ELSE (path :> entry) @@ fs

\* model.generate either fails in the libraries before anything is written,
\* or goes as ShapEModel.generate goes with the mesh decoded.
Generate ==
    /\ wpc = "l106"
    /\ LET out == Generated[Loaded(args[wjob].model), cloud] IN
       \/ /\ out.raised = {}
          /\ files' = Written(files, OutputPath(args[wjob]), out, Entry("shap_e", {}))
          /\ wpc' = "l124"
          /\ genOutcome' = [genOutcome EXCEPT ![wjob] = "ok"]
          /\ UNCHANGED << MODELS, wjob, backend, hist >>
       \/ /\ \E e \in out.raised : Fail(Reraised(e))
          /\ files' = Written(files, OutputPath(args[wjob]), out, Entry("shap_e", {}))
          /\ genOutcome' = [genOutcome EXCEPT ![wjob] = "raised"]
       \/ /\ \E e \in GenExceptions : Fail(Reraised(e))
          /\ files' = files
          /\ genOutcome' = [genOutcome EXCEPT ![wjob] = "raised"]
    /\ UNCHANGED << queue, revoked, mailbox, is_loaded >>
    /\ processFrame

\* line 124: progress_callback(1.0, 'Complete!')
FinalMeta == ProgressMeta(100, "Complete!")

Complete ==
    /\ wpc = "l124"
    /\ Store(wjob, FinalMeta)
    /\ wpc' = "l127"
    /\ UNCHANGED << MODELS, wjob, queue, revoked, mailbox, genOutcome >>
    /\ workerFrame

\* lines 126-133: the returned dict becomes the SUCCESS result
ReturnValue(r) ==
    [output_path |-> OutputPath(r), model |-> r.model, prompt |-> r.prompt,
     guidance_scale |-> r.guidance_scale,
     num_inference_steps |-> r.num_inference_steps]

Return ==
    /\ wpc = "l127"
    /\ Store(wjob, [status |-> "SUCCESS", result |-> ReturnValue(args[wjob])])
    /\ wpc' = "idle"
    /\ wjob' = UnknownId
    /\ UNCHANGED << MODELS, queue, revoked, mailbox, genOutcome >>
    /\ workerFrame

\* ===================================================== shared/config.py
\* CELERY_RESULT_EXPIRES: the backend drops a stored result after the
\* retention period, and a task with no stored meta reads as PENDING.  A task
\* runs for less than that period (CELERY_TASK_TIME_LIMIT is the same hour),
\* so only the meta of a finished task is dropped.
Expired(m) == PendingMeta

Expire(j) ==
    /\ Status(j) \in READY_STATES
    /\ Store(j, Expired(backend[j]))
    /\ resp' = NoResponse
    /\ UNCHANGED << workerVars, queue, args, nextId, revoked, mailbox,
                    apiVars, genOutcome, cancelVars, extVars >>

\* ======================================================== specification
Submission == \E r \in Requests : generate(r)

Cancellation == \E j \in AllIds : cancel_job(j)

Polling ==
    \/ \E j \in AllIds : get_status(j)
    \/ get_status_l134
    \/ get_status_l137
    \/ get_status_l139a
    \/ get_status_l139b
    \/ get_status_l140
    \/ get_status_l141

Task ==
    \/ WorkerStartup
    \/ TakeTask
    \/ UpdateStarted
    \/ CheckModel
    \/ Generate
    \/ Complete
    \/ Return

Worker == Task \/ HandleRevoke

Retention == \E j \in JobIds : Expire(j)

\* The whole service.
Next == Submission \/ Cancellation \/ Polling \/ Worker \/ Retention

Spec == Init /\ [][Next]_vars

\* The service with no status request made: submission, cancellation, the
\* worker and the retention timer.  get_status writes nothing that another
\* process reads, so the jobs go through the same states as under Spec.
LifecycleNext == Submission \/ Cancellation \/ Worker \/ Retention

LifecycleSpec == Init /\ [][LifecycleNext]_vars

\* The worker process keeps running: whenever it can take a step it does.
FairLifecycleSpec == LifecycleSpec /\ WF_vars(Worker)

\* The service with no cancel request made: submission, status polling, the
\* worker's tasks and the retention timer.
PollingNext == Submission \/ Polling \/ Task \/ Retention

PollingSpec == Init /\ [][PollingNext]_vars

\* The service within the retention period of its results: submission,
\* cancellation, status polling and the worker.
RequestNext == Submission \/ Cancellation \/ Polling \/ Worker

RequestSpec == Init /\ [][RequestNext]_vars

\* The worker process dies while it runs a task (SIGKILL, out of memory): its
\* in-memory state is gone and a supervisor starts it again from the import.
\* The task message was acknowledged when the task was taken (task_acks_late
\* is not set), so the broker does not deliver it again, and generate_3d has
\* no retry policy: the backend keeps the last meta the task stored.
Running == wpc \notin {"loading", "idle"}

Crash ==
    /\ Running
    /\ wpc' = "loading"
    /\ wjob' = UnknownId
    /\ MODELS' = {}
    /\ revoked' = {}
    /\ mailbox' = {}
    /\ is_loaded' = Load("shap_e", FALSE)
    /\ UNCHANGED << queue, backend, hist, genOutcome, files >>
    /\ processFrame

\* A job whose worker died: STARTED in the backend with no worker running it.
Orphaned(j) == Status(j) = "STARTED" /\ wjob # j

\* result_expires holds for every stored meta: that of an orphaned job is
\* dropped after the retention period as well.
ExpireOrphan(j) ==
    /\ Orphaned(j)
    /\ Store(j, Expired(backend[j]))
    /\ resp' = NoResponse
    /\ UNCHANGED << workerVars, queue, args, nextId, revoked, mailbox,
                    apiVars, genOutcome, cancelVars, extVars >>

OrphanRetention == \E j \in JobIds : ExpireOrphan(j)

\* The service with a worker that can die: submission, the worker's tasks,
\* crashes and the retention timer; a live worker keeps taking steps.
CrashNext == Submission \/ Task \/ Crash \/ Retention \/ OrphanRetention

CrashSpec == Init /\ [][CrashNext]_vars /\ WF_vars(Task)

\* ============================================== multi_model_service.py
\* The Flask services answer one request at a time here: a request is one
\* step, from the parsing of its body to its response.

RegisterUnchecked(reg, name, ok) == reg \cup {name}

\* load_all_models, lines 41-42 and 47-48: the model object is put in
\* self.models only if its load() returned True.
Register(reg, name, ok) == IF ok THEN reg \cup {name} ELSE reg

serviceFrame == UNCHANGED << jobVars, cloud, now >>

\* main, line 183: MultiModelService(), whose constructor loads the models.
load_all_models ==
    /\ spc = "down"
    /\ \E gd \in BOOLEAN, dg \in BOOLEAN :
          /\ is_loaded' = [Load("gaussiandreamer", gd) EXCEPT !["dreamgaussian"] = dg]
          /\ models' = Register(Register({}, "gaussiandreamer", gd),
                                "dreamgaussian", dg)
    /\ spc' = "up"
    /\ resp' = NoResponse
    /\ UNCHANGED << invoked, files >>
    /\ serviceFrame

\* The bodies a client posts: a prompt, possibly empty, and a model name.
ServicePrompts == {"", "red car"}
ServiceModels == {"gaussiandreamer", "dreamgaussian", "nonexistent"}

\* lines 68-71: the ValueError text
UnknownModelMessage(model_name, available) ==
    [text |-> "Model not available", model |-> model_name,
     available |-> available]

\* lines 73-79: output_path
ServiceOutputPath(model_name, prompt) ==
    PathJoin(<< "output_dir" >>,
             OutputName(model_name, SafePrompt(Chars[prompt]), Strftime(now)))

\* An exception of the third-party pipeline during the optimisation.
PipelineExceptions == { Exc("RuntimeError", << "CUDA out of memory" >>) }

\* GaussianDreamerModel.generate, lines 44-70
GaussianDreamerGenerate(loaded, g) ==
    IF ~loaded
    THEN {Outcome({Exc("RuntimeError", << "GaussianDreamer not loaded" >>)}, {})}
    ELSE {Outcome({}, {ExportGaussians(g)})}
            \cup {Outcome({e}, {}) : e \in PipelineExceptions}

\* DreamGaussianModel.generate, lines 44-73: the file is written by the
\* pipeline's own export_ply, whose bytes are not this repository's.
ExternalPly == [writer |-> "dreamgaussian"]

DreamGaussianGenerate(loaded) ==
    IF ~loaded
    THEN {Outcome({Exc("RuntimeError", << "DreamGaussian not loaded" >>)}, {})}
    ELSE {Outcome({}, {ExternalPly})}
            \cup {Outcome({e}, {}) : e \in PipelineExceptions}

\* line 89: model.generate(prompt, output_path, **kwargs)
ModelOutcomes(model_name) ==
    CASE model_name = "gaussiandreamer" ->
           GaussianDreamerGenerate(Loaded(model_name), PointsOf(cloud))
      [] model_name = "dreamgaussian" ->
           DreamGaussianGenerate(Loaded(model_name))
      [] OTHER -> {Outcome({Exc("KeyError", << model_name >>)}, {})}

\* line 66: model_name not in self.models
Registered(model_name) == model_name \in models

\* The handler's responses, lines 148, 161-166 and 168-171.
ServiceResponse(prompt, model_name, code, body) ==
    [op |-> "service_generate", prompt |-> prompt, model |-> model_name,
     code |-> code, body |-> body]

ServiceError(e) ==
    [status |-> "error", error |-> Str(e)]

\* POST /generate of multi_model_service.py with MultiModelService.generate.
service_generate(prompt, model_name) ==
    /\ spc = "up"
    /\ IF prompt = ""
       THEN /\ resp' = ServiceResponse(prompt, model_name, 400,
                                       [error |-> "prompt is required"])
            /\ UNCHANGED << invoked, files >>
       ELSE IF ~Registered(model_name)
       THEN /\ resp' = ServiceResponse(prompt, model_name, 400,
                          [status |-> "error",
                           error |-> UnknownModelMessage(model_name, models)])
            /\ UNCHANGED << invoked, files >>
       ELSE /\ invoked' = invoked \cup
                            {[model |-> model_name, loaded |-> Loaded(model_name)]}
            /\ \E out \in ModelOutcomes(model_name) :
                  /\ files' = Written(files, ServiceOutputPath(model_name, prompt),
                                      out, Entry(model_name, {}))
                  /\ resp' =
                        IF out.raised = {}
                        THEN ServiceResponse(prompt, model_name, 200,
                                 [status |-> "success",
                                  output_path |-> ServiceOutputPath(model_name, prompt),
                                  model |-> model_name, prompt |-> prompt])
                        ELSE LET e == CHOOSE x \in out.raised : TRUE
                             IN  ServiceResponse(prompt, model_name,
                                     IF e.exc_type = "ValueError" THEN 400 ELSE 500,
                                     ServiceError(e))
    /\ UNCHANGED << is_loaded, models, spc >>
    /\ serviceFrame

MultiModel ==
    \/ load_all_models
    \/ \E prompt \in ServicePrompts, model_name \in ServiceModels :
          service_generate(prompt, model_name)

\* ============================================ gaussiandreamer_service.py
\* main, line 237: GaussianDreamerService(); GAUSSIANDREAMER_AVAILABLE is
\* False on both branches of lines 19-26, so the service has no pipeline.
placeholder_startup ==
    /\ spc = "gd_down"
    /\ spc' = "gd_up"
    /\ resp' = NoResponse
    /\ UNCHANGED << is_loaded, models, invoked, files >>
    /\ serviceFrame

\* lines 58-59: as in the worker, but rstrip() leaves the leading spaces
PlaceholderSafePrompt(cs) ==
    LET kept == SelectSeq(cs, LAMBDA c : c \in Alnum \/ c \in {" ", "_"})
        last == CHOOSE k \in 0..Len(kept) :
                    /\ k = 0 \/ kept[k] # " "
                    /\ \A i \in (k + 1)..Len(kept) : kept[i] = " "
        cut == SubSeq(kept, 1, IF last < MaxSafePrompt
                               THEN last ELSE MaxSafePrompt)
    IN  [i \in 1..Len(cut) |-> IF cut[i] = " " THEN "_" ELSE cut[i]]

\* lines 57-61: output_path
PlaceholderPath(prompt) ==
    PathJoin(<< "output_dir" >>,
             PlaceholderSafePrompt(Chars[prompt]) \o << "_" >> \o Strftime(now)
                 \o << ".", "p", "l", "y" >>)

\* POST /generate of gaussiandreamer_service.py with
\* GaussianDreamerService.generate, which takes the placeholder branch.
placeholder_generate(prompt) ==
    /\ spc = "gd_up"
    /\ IF prompt = ""
       THEN /\ resp' = ServiceResponse(prompt, "", 400,
                                       [error |-> "prompt is required"])
            /\ files' = files
       ELSE \E rnd \in Randoms :
               /\ files' = (PlaceholderPath(prompt)
                                :> Entry("placeholder", {<< prompt, rnd >>}))
                              @@ files
               /\ resp' = ServiceResponse(prompt, "", 200,
                              [status |-> "success",
                               output_path |-> PlaceholderPath(prompt),
                               prompt |-> prompt])
    /\ UNCHANGED << is_loaded, models, spc, invoked >>
    /\ serviceFrame

Placeholder ==
    \/ placeholder_startup
    \/ \E prompt \in ServicePrompts : placeholder_generate(prompt)

\* ======================================================= the artifacts
\* The writers of this repository.
Writers == {"shap_e", "gaussiandreamer", "placeholder"}

\* The files the writers produce, as explicit tables computed once.
Exported == [c \in Clouds |-> ExportGaussians(PointsOf(c))] @@ << >>

Placeholders ==
    [prompt \in ServicePrompts, rnd \in Randoms |-> PlaceholderPly(prompt, rnd)]
        @@ << >>

Artifacts ==
    UNION { Generated[TRUE, c].written : c \in Clouds }
        \cup { Exported[c] : c \in Clouds }
        \cup { Placeholders[k] : k \in DOMAIN Placeholders }

\* The file at a path of the output directory, for a file of these writers.
FileAt(path) ==
    CASE files[path].writer = "shap_e" ->
           CHOOSE f \in Generated[TRUE, cloud].written : TRUE
      [] files[path].writer = "gaussiandreamer" -> Exported[cloud]
      [] files[path].writer = "placeholder" ->
           Placeholders[CHOOSE drawn \in files[path].rnd : TRUE]

\* What a reader gets from each of them.
ReadBack == [f \in Artifacts |-> Read(f)] @@ << >>

\* A downstream renderer reads an artifact back.
ReadArtifact(path) ==
    /\ files[path].writer \in Writers
    /\ resp' = [op |-> "read", path |-> path, writer |-> files[path].writer,
                cloud |-> ReadBack[FileAt(path)]]
    /\ UNCHANGED << jobVars, extVars >>

Reading == \E path \in DOMAIN files : ReadArtifact(path)

\* The three programs of the repository, each run on its own: the API with
\* its worker, the multi-model service, the GaussianDreamer service; the
\* model of the run produces any of the clouds, and the artifacts are read
\* back.
Deployments ==
    { << "loading", "off" >>, << "off", "down" >>, << "off", "gd_down" >> }

ProgramsInit ==
    \E d \in Deployments, c \in Clouds : Deployed(d[1], d[2], c)

ProgramsNext == Submission \/ Task \/ MultiModel \/ Placeholder \/ Reading

ProgramsSpec == ProgramsInit /\ [][ProgramsNext]_vars

\* ============================================================ the clock
\* The wall clock advances between any two steps of the programs.
Tick ==
    /\ now < MaxNow
    /\ now' = now + 1
    /\ resp' = NoResponse
    /\ UNCHANGED << jobVars, is_loaded, models, spc, invoked, files, cloud >>

\* Prompts with spaces, underscores, dots and slashes, and one of more than
\* 50 characters.
NamingPrompts == {"a b", " a_b ", "../a/b.", LongPrompt}

\* Each program with these prompts and a clock that runs: requests for the
\* registered models, the worker's tasks, the two Flask services while
\* their output directory holds fewer than MaxFiles files.
NamingNext ==
    \/ \E prompt \in NamingPrompts :
          generate(Request(prompt, "shap_e", DefaultGuidance, DefaultSteps))
    \/ Task
    \/ load_all_models
    \/ \E prompt \in NamingPrompts, model_name \in ServiceModels :
          /\ Cardinality(DOMAIN files) < MaxFiles
          /\ service_generate(prompt, model_name)
    \/ placeholder_startup
    \/ \E prompt \in NamingPrompts :
          /\ Cardinality(DOMAIN files) < MaxFiles
          /\ placeholder_generate(prompt)
    \/ Tick

NamingInit == \E d \in Deployments : Deployed(d[1], d[2], PlainCloud)

NamingSpec == NamingInit /\ [][NamingNext]_vars

\* ================================================================ claims

\* C1: a job whose model.generate call returned normally has passed through
\* PENDING, then STARTED, then SUCCESS and through no other state before
\* SUCCESS, and it does reach SUCCESS.
C1_Order ==
    \A j \in JobIds :
        genOutcome[j] = "ok" =>
            hist[j] \in { << "PENDING", "STARTED" >>,
                          << "PENDING", "STARTED", "SUCCESS" >>,
                          << "PENDING", "STARTED", "SUCCESS", "PENDING" >> }

HasBeen(j, state) == \E i \in 1..Len(hist[j]) : hist[j][i] = state

C2_ProgressNonDecreasing ==
    [][ (/\ lastProg.progress # {}
         /\ lastProg'.progress # {}
         /\ lastProg'.job_id = lastProg.job_id)
           => \A p \in lastProg.progress : \A q \in lastProg'.progress : q >= p
      ]_vars

\* C3: a job whose model.generate raised is in FAILURE once the worker has
\* left it, the worker is free for the next task, and a status response that
\* reports the job failed carries a non-empty error string.
C3_FailureReported ==
    \A j \in JobIds :
        genOutcome[j] = "raised" =>
            /\ wjob # j
            /\ HasBeen(j, "FAILURE")
            /\ (resp.op = "status" /\ resp.code = 200 /\ resp.job_id = j
                /\ resp.status = "FAILURE")
                  => (resp.error # {} /\ "" \notin resp.error)

\* C4: a job that has reached SUCCESS, FAILURE or REVOKED holds no other
\* state afterwards, and no job is PENDING again after it has left PENDING.
C4_TerminalImmutable ==
    \A j \in JobIds :
        \A i \in 1..Len(hist[j]) :
            /\ hist[j][i] \in READY_STATES => i = Len(hist[j])
            /\ hist[j][i] = "PENDING" => i = 1

\* C5: a get_status or cancel_job for an id that POST /generate never
\* returned, or whose result has expired, is answered with not-found.
ResultExpired(j) ==
    /\ Status(j) = "PENDING"
    /\ \E i \in 1..Len(hist[j]) : hist[j][i] \in READY_STATES

C5_UnknownIdNotFound ==
    (resp.op \in {"status", "cancel"}
     /\ (resp.job_id = UnknownId \/ ResultExpired(resp.job_id)))
        => resp.code = 404

\* C6: a POST /generate whose guidance_scale or num_inference_steps is out of
\* range is answered 422 with no job id and changes neither the queue, the
\* task messages nor the backend; every job that exists has both in range.
C6_Rejected ==
    (resp'.op = "generate" /\ ~(resp'.request.guidance_scale \in GuidanceMin..GuidanceMax
                                /\ resp'.request.num_inference_steps \in StepsMin..StepsMax))
        => /\ resp'.code = 422
           /\ resp'.job_id = {}
           /\ queue' = queue /\ args' = args /\ nextId' = nextId
           /\ backend' = backend

C6_InRange ==
    \A j \in Issued :
        /\ args[j].guidance_scale \in GuidanceMin..GuidanceMax
        /\ args[j].num_inference_steps \in StepsMin..StepsMax

C6_OutOfRangeRejected == []C6_InRange /\ [][C6_Rejected]_vars

C6_Witness ==
    /\ resp.op = "generate"
    /\ resp.code = 422
    /\ resp.request.guidance_scale < GuidanceMin
    /\ nextId > 1

\* C7: no job exists for a submission with an empty prompt or with a model
\* name the worker does not register, and such a submission is answered 422.
C7_EmptyPromptUnknownModelRejected ==
    /\ \A j \in Issued :
          args[j].prompt # "" /\ args[j].model \in LoadedModels(TRUE)
    /\ (resp.op = "generate"
        /\ (resp.request.prompt = "" \/ resp.request.model \notin LoadedModels(TRUE)))
          => resp.code = 422

\* C8: a job cancelled while it waited in the queue is never STARTED and
\* model.generate is never called for it.
C8_CancelledPendingNeverStarted ==
    \A j \in cancelledPending :
        ~HasBeen(j, "STARTED") /\ genOutcome[j] = "none"

\* C9: a job cancelled while STARTED is never reported PENDING afterwards.
C9_CancelledStartedNeverPending ==
    \A j \in cancelledStarted : Status(j) # "PENDING"

\* C10: DELETE /cancel for a job in a terminal state answers the cancelled
\* acknowledgement and leaves the job's stored state and payload as they are;
\* so does the worker's handling of the revoke, and a revoke of an id that is
\* already revoked changes nothing at all.
C10_Step ==
    /\ (resp'.op = "cancel" /\ Status(resp'.job_id) \in READY_STATES)
          => /\ resp'.code = 200
             /\ resp'.status = {"cancelled"}
             /\ backend' = backend
    /\ \A j \in AllIds :
          (j \in mailbox /\ j \notin mailbox' /\ Status(j) \in READY_STATES)
             => /\ backend' = backend
                /\ (j \in revoked => revoked' = revoked)

C10_CancelTerminalNoOp == [][C10_Step]_vars

\* a second cancel of a finished job whose first revoke the worker has handled
C10_Witness ==
    \E j \in JobIds :
        /\ resp.op = "cancel" /\ resp.job_id = j
        /\ cancels = 2
        /\ Status(j) \in {"SUCCESS", "FAILURE"}
        /\ j \in revoked

\* C11: a job is STARTED only while the worker runs it, so at most one job is
\* STARTED at a time, and the worker leaves a job only once the job is in
\* SUCCESS or FAILURE; only then can it take the next message.
C11_Owned == \A j \in JobIds : Status(j) = "STARTED" => wjob = j

C11_Step ==
    (wjob # UnknownId /\ wjob' # wjob)
        => backend'[wjob].status \in {"SUCCESS", "FAILURE"}

C11_AtMostOneStarted == []C11_Owned /\ [][C11_Step]_vars

\* the second job runs after the first, cancelled while it ran, has finished
C11_Witness ==
    /\ wjob = 2 /\ Status(2) = "STARTED"
    /\ HasBeen(1, "STARTED")
    /\ Status(1) \in {"SUCCESS", "FAILURE"}
    /\ 1 \in cancelledStarted

\* C12: of two jobs neither of which was cancelled, the one submitted later
\* is not STARTED before the one submitted earlier.
Cancelled(j) == j \in cancelledPending \cup cancelledStarted

C12_FirstSubmittedFirstServed ==
    \A a, b \in JobIds :
        (a < b /\ ~Cancelled(a) /\ ~Cancelled(b) /\ HasBeen(b, "STARTED"))
            => HasBeen(a, "STARTED")

C12_Witness ==
    /\ ~Cancelled(1) /\ ~Cancelled(2)
    /\ HasBeen(1, "STARTED")
    /\ Status(2) = "STARTED"
    /\ cancels > 0

\* C13: a job left STARTED by the death of its worker is retried and ends in
\* SUCCESS or FAILURE; no job stays STARTED for ever.
C13_CrashedJobTerminates ==
    \A j \in JobIds :
        Orphaned(j) ~> (HasBeen(j, "RETRY") \/ HasBeen(j, "SUCCESS")
                        \/ HasBeen(j, "FAILURE"))

\* C14: the status of every get_status response is one of PENDING, STARTED,
\* SUCCESS, FAILURE, RETRY.
C14_StatusValues ==
    (resp.op = "status" /\ resp.code = 200)
        => resp.status \in {"PENDING", "STARTED", "SUCCESS", "FAILURE", "RETRY"}

\* C15: a get_status response carries a result only with status SUCCESS and
\* an error only with status FAILURE, and the result of a SUCCESS response
\* has the output path and the model, prompt, guidance_scale and
\* num_inference_steps of the submission.
C15_ResultOnlyOnSuccess ==
    (resp.op = "status" /\ resp.code = 200)
        => /\ resp.result # {} => resp.status = "SUCCESS"
           /\ resp.error # {} => resp.status = "FAILURE"
           /\ resp.status = "SUCCESS" =>
                 \A r \in resp.result :
                    /\ "output_path" \in DOMAIN r
                    /\ r.model = args[resp.job_id].model
                    /\ r.prompt = args[resp.job_id].prompt
                    /\ r.guidance_scale = args[resp.job_id].guidance_scale
                    /\ r.num_inference_steps = args[resp.job_id].num_inference_steps

\* C16: a model whose load() returned False is not put in the registry, and
\* the registry then holds exactly the models that loaded: every name in the
\* worker's MODELS and in MultiModelService.models has is_loaded true, and
\* generate is called only on a model that is loaded.
C16_RegistryLoaded ==
    /\ \A n \in MODELS \cup models : Loaded(n)
    /\ wpc \notin {"loading", "off"} => MODELS = {n \in {"shap_e"} : Loaded(n)}
    /\ spc = "up" =>
          models = {n \in {"gaussiandreamer", "dreamgaussian"} : Loaded(n)}
    /\ \A i \in invoked : i.loaded
    /\ \A j \in JobIds : genOutcome[j] # "none" => Loaded(args[j].model)

\* one model failed to load, the other loaded and has generated
C16_Witness ==
    /\ spc = "up"
    /\ models = {"dreamgaussian"}
    /\ ~Loaded("gaussiandreamer")
    /\ invoked # {}

\* C17: a request for a model that is not in the registry fails and changes
\* nothing: the worker stores FAILURE with the ValueError naming the model,
\* the service answers 400 with the error naming the model, and in both no
\* generate is called, no file is written and the registry is as before.
C17_Step ==
    /\ (wpc = "l68" /\ wpc' # "l68" /\ args[wjob].model \notin MODELS) =>
          /\ backend'[wjob] =
                [status |-> "FAILURE",
                 result |-> Exc("ValueError",
                                << NotAvailableMessage(args[wjob].model) >>)]
          /\ UNCHANGED << MODELS, is_loaded, files, genOutcome, invoked >>
    /\ (spc = "up" /\ resp'.op = "service_generate" /\ resp'.prompt # ""
           /\ resp'.model \notin models) =>
          /\ resp'.code = 400
          /\ resp'.body.error = UnknownModelMessage(resp'.model, models)
          /\ UNCHANGED << models, is_loaded, files, invoked >>

C17_UnknownModelNoSideEffect == [][C17_Step]_vars

\* a job for the model 'nope' has failed in a worker whose shap_e loaded
C17_Witness ==
    \E j \in JobIds :
        /\ args[j].model = "nope"
        /\ MODELS = {"shap_e"}
        /\ backend[j].status = "FAILURE"
        /\ genOutcome[j] = "none"

\* C18: every file written by the writers of this repository is the header
\* followed by as many records as the header's element vertex line says, each
\* record being position (12 bytes), normal (12), color (3), opacity (4),
\* scale (12), rotation (16), so that its size is the header's length plus
\* 59 bytes per record; and a job in SUCCESS has such a file at its output
\* path.
Layout ==
    << [field |-> "position", len |-> 12], [field |-> "normal", len |-> 12],
       [field |-> "color", len |-> 3], [field |-> "opacity", len |-> 4],
       [field |-> "scale", len |-> 12], [field |-> "rotation", len |-> 16] >>

WellFormed(f) ==
    /\ Len(f.records) = f.header[3].count
    /\ \A i \in 1..Len(f.records) :
          [k \in 1..Len(f.records[i]) |->
              [field |-> f.records[i][k].field, len |-> f.records[i][k].len]]
            = Layout
    /\ FileSize(f) = HeaderLen(f.header) + f.header[3].count * RecordSize

\* the files of the writers that are so, computed once
Conforming == { f \in Artifacts : WellFormed(f) }

C19_EmptyCloudWritten ==
    \A j \in JobIds :
        (cloud = << >> /\ genOutcome[j] # "none") =>
            /\ Generated[Loaded(args[j].model), cloud].raised = {}
            /\ \E f \in Generated[Loaded(args[j].model), cloud].written :
                  /\ f.header = Header(0)
                  /\ f.records = << >>
                  /\ FileSize(f) = HeaderLen(Header(0))

\* C20: what is read back from a file written from the points of a model is
\* those points, field by field.
PointCloud(g) ==
    [count |-> Len(g),
     position |-> [i \in 1..Len(g) |-> g[i].xyz],
     normal |-> [i \in 1..Len(g) |-> g[i].normal],
     color |-> [i \in 1..Len(g) |-> ColorsUint8(g[i].rgb)],
     opacity |-> [i \in 1..Len(g) |-> g[i].opacity],
     scale |-> [i \in 1..Len(g) |-> g[i].scaling],
     rotation |-> [i \in 1..Len(g) |-> g[i].rotation]]

C20_RoundTrip ==
    (resp.op = "read" /\ resp.writer \in {"shap_e", "gaussiandreamer"})
        => resp.cloud = PointCloud(PointsOf(cloud))


\* C21: cancellation of a running job is cooperative. A worker that passes a
\* progress checkpoint of its job (the update of line 59, the callbacks of
\* lines 102 and 124) while a cancel signal sent to that job as it ran is
\* pending stops the job there, and a cancel request never changes the position, the job or
\* the stored state of a worker that is running a job.
Checkpoints == {"l59", "l68", "l124"}

C21_Step ==
    /\ (/\ wpc \in Checkpoints
        /\ wjob \in mailbox \cap cancelledStarted
        /\ wpc' # wpc) => wjob' # wjob
    /\ (cancels' # cancels /\ wpc \notin {"loading", "idle"})
           => UNCHANGED << wpc, wjob, backend, genOutcome >>

C21_CooperativeCancel == [][C21_Step]_vars


\* C22: no request writes its artifact to a path that an earlier request
\* wrote to: a task whose model.generate writes, and a POST /generate of a
\* Flask service that answers 200, find no file at their output path.
C22_Step ==
    /\ (wpc = "l106" /\ wpc' = "l124")
          => OutputPath(args[wjob]) \notin DOMAIN files
    /\ (/\ resp' # resp \/ files' # files
        /\ resp'.op = "service_generate"
        /\ resp'.code = 200)
          => resp'.body.output_path \notin DOMAIN files

C22_DistinctOutputPaths == [][C22_Step]_vars


\* C23: the name of every artifact of the worker and of the multi-model
\* service reads <model_name>_<safe_prompt>_<timestamp>.ply with model_name a
\* key of the registry and safe_prompt of at most 50 characters, each
\* alphanumeric or an underscore; every artifact is a direct child of the
\* output directory, its name without a path separator and without "..", and
\* the output_path of every result ends in ".ply".
Registry == IF spc = "off" THEN MODELS ELSE models

WellNamed(name) ==
    \E model_name \in Registry, ticks \in 0..MaxNow :
        /\ Len(name) >= Len(Chars[model_name]) + 21
        /\ LET safe_prompt == SubSeq(name, Len(Chars[model_name]) + 2,
                                     Len(name) - 20)
           IN  /\ name = OutputName(model_name, safe_prompt, Strftime(ticks))
               /\ Len(safe_prompt) <= MaxSafePrompt
               /\ \A i \in 1..Len(safe_prompt) :
                     safe_prompt[i] \in Alnum \cup {"_"}

EndsInPly(name) ==
    /\ Len(name) >= 4
    /\ SubSeq(name, Len(name) - 3, Len(name)) = << ".", "p", "l", "y" >>

DirectChild(path) ==
    /\ Len(path) = 2
    /\ path[1] \in { << "OUTPUT_DIR" >>, << "output_dir" >> }
    /\ \A i \in 1..Len(path[2]) :
          /\ path[2][i] # "/"
          /\ i > 1 => ~(path[2][i - 1] = "." /\ path[2][i] = ".")

C23_SafeOutputName ==
    /\ \A path \in DOMAIN files :
          /\ DirectChild(path)
          /\ EndsInPly(path[2])
          /\ spc \in {"off", "up"} => WellNamed(path[2])
    /\ \A j \in JobIds :
          Status(j) = "SUCCESS" =>
             /\ DirectChild(backend[j].result.output_path)
             /\ EndsInPly(backend[j].result.output_path[2])

\* Two jobs have succeeded, one with a prompt of dots and slashes and one with
\* a prompt of more than 50 characters, and their artifacts are in place.
C23_Witness ==
    \E j \in JobIds, k \in JobIds :
        /\ Status(j) = "SUCCESS" /\ args[j].prompt = "../a/b."
        /\ Status(k) = "SUCCESS" /\ args[k].prompt = LongPrompt
        /\ backend[j].result.output_path \in DOMAIN files
        /\ backend[k].result.output_path \in DOMAIN files

====
